---- MODULE Spec2Model ----
(***************************************************************************)
(* Model of scripts/generate-comet-kernels.py: the Horizons vector-table   *)
(* parser, the chunking and segment-id helpers, and the per-group          *)
(* fetch / open / write / close loop of generate_kernels.                  *)
(*                                                                         *)
(* Text is modelled as sequences of one-character strings wherever the     *)
(* code looks at characters (segment ids, the id inside the parentheses of *)
(* the Target header, the digits after "Rec #:"), and as sequences of      *)
(* lines and comma-separated fields wherever the code splits it.           *)
(***************************************************************************)
EXTENDS Integers, Sequences, FiniteSets, TLC

VARIABLES
    input,                  \* arguments of the pure function under check
    output,                 \* its return value or the exception it raised
    max_comets_per_kernel,  \* generate_kernels argument
    parts,                  \* list(_chunked(list(COMETS), max_comets_per_kernel))
    part_index,             \* enumerate(parts, start=1)
    pc,                     \* position inside generate_kernels
    pos,                    \* index of the next comet in the fetch / write loop
    fetched,                \* the group's fetched list
    handle,                 \* the local variable handle (0: unbound)
    open_handles,           \* toolkit side: handles opened and not yet closed
    segments_written,       \* the local counter
    all_mappings,           \* the accumulated summary records
    disk,                   \* out_path -> segments held by the file at that path
    calls,                  \* toolkit / network calls issued so far, in order
    raising                 \* an exception is propagating through the finally block

purevars == <<input, output>>
runvars == <<max_comets_per_kernel, parts, part_index, pc, pos, fetched, handle,
             open_handles, segments_written, all_mappings, disk, calls, raising>>
vars == <<input, output, max_comets_per_kernel, parts, part_index, pc, pos, fetched,
          handle, open_handles, segments_written, all_mappings, disk, calls, raising>>

-----------------------------------------------------------------------------
(* Bounds of the model *)

NumComets == 3      \* length of the catalog prefix a run works on
MaxItems == 5       \* longest list handed to _chunked
MaxRun == 20        \* longest run of one character in a designation
MaxRows == 5        \* most lines between $$SOE and $$EOE

(* Program constants *)

JD_J2000 == 2451545
DAY_SEC == 86400
SEGID_MAX == 40
MIN_ROWS == 4
NUM_COLS == 7
DEGREE == 3
CENTER == 10

-----------------------------------------------------------------------------
(* Characters and decimal notation *)

Digits == <<"0", "1", "2", "3", "4", "5", "6", "7", "8", "9">>

IsDigit(c) == \E i \in 1..10 : Digits[i] = c

DigitVal(c) == (CHOOSE i \in 1..10 : Digits[i] = c) - 1

RECURSIVE NatToStr(_)
NatToStr(n) == IF n < 10 THEN <<Digits[n + 1]>>
               ELSE NatToStr(n \div 10) \o <<Digits[(n % 10) + 1]>>

\* str(n) of a Python int
IntToStr(n) == IF n < 0 THEN <<"-">> \o NatToStr(0 - n) ELSE NatToStr(n)

RECURSIVE DigitsToNat(_)
DigitsToNat(s) == IF s = <<>> THEN 0
                  ELSE 10 * DigitsToNat(SubSeq(s, 1, Len(s) - 1)) + DigitVal(s[Len(s)])

AllDigits(s) == Len(s) > 0 /\ \A i \in 1..Len(s) : IsDigit(s[i])

\* int(s) for s over the characters "-" and "0".."9": a value, or ValueError
IntOfStr(s) ==
    IF AllDigits(s) THEN [ok |-> TRUE, v |-> DigitsToNat(s)]
    ELSE IF Len(s) > 1 /\ s[1] = "-" /\ AllDigits(Tail(s))
         THEN [ok |-> TRUE, v |-> 0 - DigitsToNat(Tail(s))]
         ELSE [ok |-> FALSE, v |-> 0]

\* s[:n]
Take(s, n) == SubSeq(s, 1, IF Len(s) < n THEN Len(s) ELSE n)

RECURSIVE Rep(_, _)
Rep(c, n) == IF n = 0 THEN <<>> ELSE <<c>> \o Rep(c, n - 1)

-----------------------------------------------------------------------------
(* _chunked *)

RECURSIVE ChunkFrom(_, _, _)
\* the loop "for i in range(0, len(items), size): yield items[i : i + size]",
\* i counted from 0 as in the code
ChunkFrom(items, size, i) ==
    IF i >= Len(items) THEN <<>>
    ELSE <<SubSeq(items, i + 1, IF i + size < Len(items) THEN i + size ELSE Len(items))>>
         \o ChunkFrom(items, size, i + size)

\* variant: the last, shorter chunk is lost
ChunkedDropsTail(items, size) ==
    IF size <= 0 THEN <<items>>
    ELSE ChunkFrom(SubSeq(items, 1, (Len(items) \div size) * size), size, 0)

\* list(_chunked(items, size))
Chunked(items, size) ==
    IF size <= 0 THEN <<items>> ELSE ChunkFrom(items, size, 0)

-----------------------------------------------------------------------------
(* _mk_segid *)

SegidPrefix == <<"C", "O", "M", "E", "T">>

\* s.replace(" ", "")
RECURSIVE RemoveSpaces(_)
RemoveSpaces(s) ==
    IF s = <<>> THEN <<>>
    ELSE IF Head(s) = " " THEN RemoveSpaces(Tail(s))
         ELSE <<Head(s)>> \o RemoveSpaces(Tail(s))

\* f"COMET {designation} ({naif_id})"
SegidBase(designation, naif_id) ==
    SegidPrefix \o <<" ">> \o designation \o <<" ", "(">> \o IntToStr(naif_id) \o <<")">>

\* variant: the fallback is not cut to 40 characters
MkSegidNoTruncate(designation, naif_id) ==
    IF Len(SegidBase(designation, naif_id)) <= SEGID_MAX
    THEN SegidBase(designation, naif_id)
    ELSE RemoveSpaces(SegidPrefix \o <<" ">> \o designation)

MkSegid(designation, naif_id) ==
    IF Len(SegidBase(designation, naif_id)) <= SEGID_MAX
    THEN SegidBase(designation, naif_id)
    ELSE Take(RemoveSpaces(SegidPrefix \o <<" ">> \o designation), SEGID_MAX)

-----------------------------------------------------------------------------
(* _parse_horizons_vectors                                                 *)
(*                                                                         *)
(* result_text is a sequence of lines.  A line is a record                 *)
(*   [k |-> "target", s |-> the characters after "Target body name:"]      *)
(*   [k |-> "rec",    s |-> the characters after "Rec #:"]                 *)
(*   [k |-> "soe"], [k |-> "eoe"]   a line holding only the marker         *)
(*   [k |-> "csv",    f |-> the fields of line.split(",")]                 *)
(*   [k |-> "text"]   any other line without a comma                       *)
(* with s a sequence of characters and each field a sequence of            *)
(* characters over digits, "-", " ", letters and ".".                      *)

IsSpace(c) == c = " " \/ c = "\t"

IsWordChar(c) == IsDigit(c) \/ c \in {"a", "b", "n", "x", "A", "D", "X", "_"}

IsIdChar(c) == IsDigit(c) \/ c = "-"

RECURSIVE LStrip(_)
LStrip(s) == IF s # <<>> /\ IsSpace(Head(s)) THEN LStrip(Tail(s)) ELSE s

RECURSIVE RStrip(_)
RStrip(s) == IF s # <<>> /\ IsSpace(s[Len(s)]) THEN RStrip(SubSeq(s, 1, Len(s) - 1)) ELSE s

\* s.strip()
Strip(s) == LStrip(RStrip(s))

\* length of the longest suffix of s made of characters of [-0-9]
RECURSIVE IdRunLen(_)
IdRunLen(s) == IF s # <<>> /\ IsIdChar(s[Len(s)])
               THEN 1 + IdRunLen(SubSeq(s, 1, Len(s) - 1)) ELSE 0

\* The group of  Target body name:\s*.*\(([-0-9]+)\)\s*$  on one line, s being
\* the characters after the colon: <<>> when the line does not match.
TargetGroup(s) ==
    LET r == RStrip(s)
        body == SubSeq(r, 1, Len(r) - 1)
        n == IdRunLen(body)
    IN IF r # <<>> /\ r[Len(r)] = ")" /\ n > 0 /\ Len(body) > n /\ body[Len(body) - n] = "("
       THEN SubSeq(body, Len(body) - n + 1, Len(body))
       ELSE <<>>

RECURSIVE LeadingDigits(_)
LeadingDigits(s) == IF s # <<>> /\ IsDigit(Head(s))
                    THEN <<Head(s)>> \o LeadingDigits(Tail(s)) ELSE <<>>

\* The group of  Rec #:(\d+)\b  on one line, s being the characters after the
\* colon: <<>> when the line does not match.
RecGroup(s) ==
    LET d == LeadingDigits(s)
    IN IF d # <<>> /\ (Len(s) = Len(d) \/ ~IsWordChar(s[Len(d) + 1])) THEN d ELSE <<>>

TargetMatches(line) == line.k = "target" /\ TargetGroup(line.s) # <<>>

RecMatches(line) == line.k = "rec" /\ RecGroup(line.s) # <<>>

\* re.search / str.find: the first of the matching lines, 0 when there is none
First(hits) == IF hits = {} THEN 0 ELSE CHOOSE i \in hits : \A j \in hits : i <= j

\* Lines 113-122: err "none" and the id, err "value" when int() raises
\* ValueError, err "id" when the function raises its own RuntimeError.
ResolveId(text) ==
    LET m == First({i \in 1..Len(text) : TargetMatches(text[i])})
        m2 == First({i \in 1..Len(text) : RecMatches(text[i])})
    IN IF m # 0
       THEN IF IntOfStr(TargetGroup(text[m].s)).ok
            THEN [err |-> "none", v |-> IntOfStr(TargetGroup(text[m].s)).v]
            ELSE [err |-> "value", v |-> 0]
       ELSE IF m2 = 0 THEN [err |-> "id", v |-> 0]
            ELSE [err |-> "none", v |-> DigitsToNat(RecGroup(text[m2].s))]

\* result_text.find("$$SOE"), as a line number (0: not found)
FindSoe(text) == First({i \in 1..Len(text) : text[i].k = "soe"})

\* result_text.find("$$EOE"), as a line number (0: not found)
FindEoe(text) == First({i \in 1..Len(text) : text[i].k = "eoe"})

\* line.split(","): a line of another kind holds no comma and no number
FieldsOf(line) == IF line.k = "csv" THEN line.f ELSE <<<<"x">>>>

\* "if not line: continue" after raw_line.strip()
IsBlank(line) == Len(FieldsOf(line)) = 1 /\ Strip(FieldsOf(line)[1]) = <<>>

\* float(p) of a stripped field: a number, "nan" (a float that differs from
\* itself), or ValueError
FloatOf(p) ==
    IF IntOfStr(Strip(p)).ok THEN [kind |-> "num", v |-> IntOfStr(Strip(p)).v]
    ELSE IF Strip(p) = <<"n", "a", "n">> THEN [kind |-> "nan", v |-> 0]
         ELSE [kind |-> "ValueError", v |-> 0]

\* the list nums of one line (lines 140-149)
RECURSIVE NumsOf(_)
NumsOf(fields) ==
    IF fields = <<>> THEN <<>>
    ELSE IF FloatOf(Head(fields)).kind = "num"
         THEN <<FloatOf(Head(fields)).v>> \o NumsOf(Tail(fields))
         ELSE NumsOf(Tail(fields))

\* et = (jd - JD_J2000) * DAY_SEC
EpochOf(jd) == (jd - JD_J2000) * DAY_SEC

\* vec = nums[1:7] (a slice stops at the end of a shorter list)
VecOf(nums) == SubSeq(nums, 2, IF Len(nums) < NUM_COLS THEN Len(nums) ELSE NUM_COLS)

\* variant: a row of 6 numeric columns is let through
RowTooShortLenient(nums) == Len(nums) < NUM_COLS - 1

\* if len(nums) < 7: raise
RowTooShort(nums) == Len(nums) < NUM_COLS

\* variant: the minimum number of rows is not enforced
TooFewNever(epochs_et) == FALSE

\* if len(epochs_et) < 4: raise
TooFew(epochs_et) == Len(epochs_et) < MIN_ROWS

\* the loop of lines 134-160 over the lines of the block
RECURSIVE ParseRows(_, _, _)
ParseRows(block, epochs_et, states) ==
    IF block = <<>> THEN [err |-> "none", epochs |-> epochs_et, states |-> states]
    ELSE IF IsBlank(Head(block)) THEN ParseRows(Tail(block), epochs_et, states)
    ELSE LET nums == NumsOf(FieldsOf(Head(block)))
         IN IF RowTooShort(nums) THEN [err |-> "row", epochs |-> <<>>, states |-> <<>>]
            ELSE ParseRows(Tail(block), Append(epochs_et, EpochOf(nums[1])),
                           Append(states, VecOf(nums)))

NoResult(e) == [err |-> e, naif_id |-> 0, epochs |-> <<>>, states |-> <<>>]

\* _parse_horizons_vectors(result_text): err "none" and the tuple returned, or
\* the place that raised
Parse(text) ==
    LET id == ResolveId(text)
        start == FindSoe(text)
        end == FindEoe(text)
    IN IF id.err # "none" THEN NoResult(id.err)
       ELSE IF start = 0 \/ end = 0 \/ end <= start THEN NoResult("block")
       ELSE LET rows == ParseRows(SubSeq(text, start + 1, end - 1), <<>>, <<>>)
            IN IF rows.err # "none" THEN NoResult(rows.err)
               ELSE IF TooFew(rows.epochs) THEN NoResult("few")
               ELSE [err |-> "none", naif_id |-> id.v,
                     epochs |-> rows.epochs, states |-> rows.states]

-----------------------------------------------------------------------------
(* Inputs of the checks of the pure functions *)

TargetLine(s) == [k |-> "target", s |-> s, f |-> <<>>]
RecLine(s) == [k |-> "rec", s |-> s, f |-> <<>>]
SoeLine == [k |-> "soe", s |-> <<>>, f |-> <<>>]
EoeLine == [k |-> "eoe", s |-> <<>>, f |-> <<>>]
CsvLine(f) == [k |-> "csv", s |-> <<>>, f |-> f]
TextLine == [k |-> "text", s |-> <<>>, f |-> <<>>]

\* " X (<tok>)<trail>" after "Target body name:"
TargetRest(tok, trail) == <<" ", "X", " ", "(">> \o tok \o <<")">> \o trail

TargetRests ==
    { TargetRest(<<"1", "2">>, <<>>),
      TargetRest(<<"-", "1", "2">>, <<" ">>),
      TargetRest(<<"1", "-", "2">>, <<>>),
      TargetRest(<<"-">>, <<>>),
      TargetRest(<<"7">>, <<" ", "x">>),
      TargetRest(<<"x">>, <<>>),
      TargetRest(<<"3">>, <<" ", "(", "4", "5", ")">>),
      <<" ", "X", " ", "1", "2">> }

RecRests ==
    { <<"9", "0", "0">>,
      <<"9", "0", "1", " ", "x">>,
      <<"9", "0", "2", "x">>,
      <<" ", "9", "0", "3">>,
      <<>> }

IdLines == {TargetLine(s) : s \in TargetRests} \cup {RecLine(s) : s \in RecRests}

Headers == {<<>>} \cup {<<a>> : a \in IdLines} \cup {<<a, b>> : a, b \in IdLines}

FewHeaders == { <<>>, <<RecLine(<<"9", "0", "0">>)>>,
                <<TextLine, TargetLine(TargetRest(<<"1", "2">>, <<>>))>> }

\* the Julian dates of the rows of a block: increasing, with rows 2 and 3 at
\* the same date, or decreasing
JdPatterns == {"inc", "dup", "dec"}

JdAt(pattern, i) ==
    CASE pattern = "inc" -> JD_J2000 + i
      [] pattern = "dup" -> JD_J2000 + (IF i >= 3 THEN i - 1 ELSE i)
      [] OTHER -> JD_J2000 - i

\* numeric column c >= 2 of row i: distinct for every row and column
ValAt(i, c) == IF c = 4 THEN 0 - (10 * i + c) ELSE 10 * i + c

NumField(n) == <<" ">> \o IntToStr(n)

DateField == <<" ", "A", ".", "D", ".", " ", "x">>

NanField == <<" ", "n", "a", "n", " ">>

ValFields(i, from, to) == [c \in 1..(to - from + 1) |-> NumField(ValAt(i, c + from - 1))]

RowShapes == {"horizons", "plain", "short", "nan", "nanshort", "extra", "lead",
              "blank", "commas", "text"}

\* line i of a block, of the given shape
RowLine(shape, i, jd) ==
    CASE shape = "horizons" ->
            CsvLine(<<IntToStr(jd), DateField>> \o ValFields(i, 2, 7) \o <<<<>>>>)
      [] shape = "plain" -> CsvLine(<<IntToStr(jd)>> \o ValFields(i, 2, 7))
      [] shape = "short" -> CsvLine(<<IntToStr(jd), DateField>> \o ValFields(i, 2, 6))
      [] shape = "nan" -> CsvLine(<<IntToStr(jd), NanField>> \o ValFields(i, 2, 7))
      [] shape = "nanshort" -> CsvLine(<<IntToStr(jd)>> \o ValFields(i, 2, 6) \o <<NanField>>)
      [] shape = "extra" -> CsvLine(<<IntToStr(jd)>> \o ValFields(i, 2, 8))
      [] shape = "lead" -> CsvLine(<<NumField(jd + 100), IntToStr(jd)>> \o ValFields(i, 2, 7))
      [] shape = "blank" -> CsvLine(<<<<" ">>>>)
      [] shape = "commas" -> CsvLine(<<<<>>, <<" ">>>>)
      [] OTHER -> TextLine

\* n lines, all of shape "horizons" but line k (k = 0: none) of shape `shape`
BlockRows(n, k, shape, pattern) ==
    [i \in 1..n |-> RowLine(IF i = k THEN shape ELSE "horizons", i, JdAt(pattern, i))]

Markers == {"ok", "nosoe", "noeoe", "swapped"}

WithMarkers(m, rows) ==
    CASE m = "ok" -> <<SoeLine>> \o rows \o <<EoeLine>>
      [] m = "nosoe" -> rows \o <<EoeLine>>
      [] m = "noeoe" -> <<SoeLine>> \o rows
      [] OTHER -> <<EoeLine>> \o rows \o <<SoeLine>>

Blocks ==
    { WithMarkers(m, BlockRows(n, k, shape, pattern)) :
        m \in Markers, n \in 0..MaxRows, k \in 0..MaxRows,
        shape \in RowShapes, pattern \in JdPatterns }

FewBlocks == { WithMarkers("ok", BlockRows(MIN_ROWS, 0, "plain", "inc")),
               WithMarkers("ok", BlockRows(MIN_ROWS - 1, 0, "plain", "inc")) }

Texts ==
    { h \o b : h \in Headers, b \in FewBlocks } \cup
    { b \o h : h \in Headers, b \in FewBlocks } \cup
    { h \o b : h \in FewHeaders, b \in Blocks }

BodiesOf(n) == UNION { [1..m -> {"a", "b"}] : m \in 0..n }

DesignationSeps == { <<>>, <<" ">>, <<"\t">>, <<" ", "\t", " ">> }

Designations ==
    { Rep("a", i) \o sep \o Rep("b", j) : i \in 0..MaxRun, j \in 0..MaxRun,
                                             sep \in DesignationSeps }

NaifIds == { 0 - 12, 7, 900, 90000030 }

NotCalled == [done |-> FALSE, r |-> <<>>]

Returned(r) == [done |-> TRUE, r |-> r]

RunIdle ==
    /\ max_comets_per_kernel = 0
    /\ parts = <<>>
    /\ part_index = 0
    /\ pc = "idle"
    /\ pos = 0
    /\ fetched = <<>>
    /\ handle = 0
    /\ open_handles = {}
    /\ segments_written = 0
    /\ all_mappings = <<>>
    /\ disk = <<>>
    /\ calls = <<>>
    /\ raising = FALSE

InitChunked ==
    /\ input \in { [fn |-> "_chunked", items |-> items, size |-> size] :
                     items \in BodiesOf(MaxItems), size \in (0 - 2)..(MaxItems + 1) }
    /\ output = NotCalled
    /\ RunIdle

CallChunked ==
    /\ input.fn = "_chunked" /\ ~output.done
    /\ output' = Returned(Chunked(input.items, input.size))
    /\ UNCHANGED <<input, runvars>>

SpecChunked == InitChunked /\ [][CallChunked]_vars

InitMkSegid ==
    /\ input \in { [fn |-> "_mk_segid", designation |-> d, naif_id |-> n] :
                     d \in Designations, n \in NaifIds }
    /\ output = NotCalled
    /\ RunIdle

CallMkSegid ==
    /\ input.fn = "_mk_segid" /\ ~output.done
    /\ output' = Returned(MkSegid(input.designation, input.naif_id))
    /\ UNCHANGED <<input, runvars>>

SpecMkSegid == InitMkSegid /\ [][CallMkSegid]_vars

InitParse ==
    /\ input \in { [fn |-> "_parse_horizons_vectors", result_text |-> t] : t \in Texts }
    /\ output = NotCalled
    /\ RunIdle

CallParse ==
    /\ input.fn = "_parse_horizons_vectors" /\ ~output.done
    /\ output' = Returned(Parse(input.result_text))
    /\ UNCHANGED <<input, runvars>>

SpecParse == InitParse /\ [][CallParse]_vars

-----------------------------------------------------------------------------
(* Properties of _chunked, checked under SpecChunked *)

RECURSIVE Flatten(_)
Flatten(groups) == IF groups = <<>> THEN <<>> ELSE Head(groups) \o Flatten(Tail(groups))

CeilDiv(n, d) == (n + d - 1) \div d

\* C4: for size > 0 the groups of _chunked(items, size) concatenate to items,
\* every group but the last holds exactly size items, the last holds between
\* 1 and size, and there are ceil(len(items) / size) groups; for size <= 0
\* the result is the single group items.
ChunkedAsPlanned ==
    output.done =>
        LET items == input.items
            size == input.size
            g == output.r
        IN IF size <= 0 THEN g = <<items>>
           ELSE /\ Flatten(g) = items
                /\ \A k \in 1..(Len(g) - 1) : Len(g[k]) = size
                /\ Len(g) > 0 => Len(g[Len(g)]) \in 1..size
                /\ Len(g) = CeilDiv(Len(items), size)

ChunkedFiveByTwo ==
    /\ output.done
    /\ Len(input.items) = 5 /\ input.size = 2
    /\ Len(output.r) = 3
    /\ Len(output.r[1]) = 2 /\ Len(output.r[2]) = 2 /\ Len(output.r[3]) = 1

-----------------------------------------------------------------------------
(* Properties of _mk_segid, checked under SpecMkSegid *)

NotSpace(c) == c # " "

NotWhitespace(c) == ~IsSpace(c)

Readable(designation, naif_id) ==
    <<"C", "O", "M", "E", "T", " ">> \o designation \o <<" ", "(">>
        \o IntToStr(naif_id) \o <<")">>

\* C5 as stated: the segment id is at most 40 characters long, is the readable
\* form when that fits, and otherwise is "COMET" followed by the designation
\* with every whitespace character removed, cut to 40 characters.
SegidStripsWhitespace ==
    output.done =>
        LET readable == Readable(input.designation, input.naif_id)
        IN /\ Len(output.r) <= SEGID_MAX
           /\ output.r = IF Len(readable) <= SEGID_MAX THEN readable
                         ELSE Take(<<"C", "O", "M", "E", "T">>
                                       \o SelectSeq(input.designation, NotWhitespace),
                                   SEGID_MAX)

\* C5 amended: the segment id is at most 40 characters long, is the readable
\* form when that fits, and otherwise is "COMET" followed by the designation
\* with every space character (and no other whitespace) removed, cut to 40
\* characters.
SegidRemovesSpaces ==
    output.done =>
        LET readable == Readable(input.designation, input.naif_id)
        IN /\ Len(output.r) <= SEGID_MAX
           /\ output.r = IF Len(readable) <= SEGID_MAX THEN readable
                         ELSE Take(<<"C", "O", "M", "E", "T">>
                                       \o SelectSeq(input.designation, NotSpace),
                                   SEGID_MAX)

SegidCompactedAndCut ==
    /\ output.done
    /\ Len(Readable(input.designation, input.naif_id)) > SEGID_MAX
    /\ \E i \in 1..Len(input.designation) : input.designation[i] = " "
    /\ Len(SelectSeq(input.designation, NotSpace)) > SEGID_MAX - 5
    /\ Len(output.r) = SEGID_MAX

-----------------------------------------------------------------------------
(* Properties of _parse_horizons_vectors, checked under SpecParse *)

\* the lines between the first $$SOE and the first $$EOE, when both are there
\* in that order
DataBlock(text) ==
    LET start == FindSoe(text)
        end == FindEoe(text)
    IN IF start # 0 /\ end > start THEN SubSeq(text, start + 1, end - 1) ELSE <<>>

HasDataBlock(text) == FindSoe(text) # 0 /\ FindEoe(text) > FindSoe(text)

NonBlank(line) == ~IsBlank(line)

\* the numeric values of each non-blank line of the data block, in line order
RowNums(text) ==
    LET lines == SelectSeq(DataBlock(text), NonBlank)
    IN [i \in 1..Len(lines) |-> NumsOf(FieldsOf(lines[i]))]

StrictlyIncreasing(s) == \A i \in 1..(Len(s) - 1) : s[i] < s[i + 1]

RowsMatch(text, r) ==
    LET rows == RowNums(text)
    IN /\ Len(r.epochs) = Len(rows)
       /\ Len(r.states) = Len(rows)
       /\ \A i \in 1..Len(rows) :
            /\ Len(rows[i]) >= 7
            /\ r.epochs[i] = (rows[i][1] - 2451545) * 86400
            /\ r.states[i] = <<rows[i][2], rows[i][3], rows[i][4],
                               rows[i][5], rows[i][6], rows[i][7]>>

ValidRowCount(text) ==
    Cardinality({i \in 1..Len(RowNums(text)) : Len(RowNums(text)[i]) >= 7})

\* C6 as stated: every result of parse has as many epochs as states, at least
\* 4, strictly increasing epochs, and states[i] from the same row as
\* epochs[i] in row order; fewer than 4 valid rows give an error.
ParsedEpochsIncrease ==
    output.done =>
        LET text == input.result_text
            r == output.r
        IN /\ r.err = "none" =>
                /\ Len(r.epochs) = Len(r.states) /\ Len(r.epochs) >= 4
                /\ StrictlyIncreasing(r.epochs)
                /\ RowsMatch(text, r)
           /\ ValidRowCount(text) < 4 => r.err # "none"

\* C6 amended: every result of parse has as many epochs as states, at least
\* 4, with epochs[i] = (jd - 2451545) * 86400 and states[i] both taken from
\* the i-th non-blank row; the epochs are in row order, unsorted and
\* unchecked, and so strictly increasing exactly when the Julian dates of the
\* rows are; fewer than 4 valid rows give an error.
ParsedEpochsFollowRows ==
    output.done =>
        LET text == input.result_text
            r == output.r
            rows == RowNums(text)
        IN /\ r.err = "none" =>
                /\ Len(r.epochs) = Len(r.states) /\ Len(r.epochs) >= 4
                /\ RowsMatch(text, r)
                /\ StrictlyIncreasing(r.epochs)
                     <=> StrictlyIncreasing([i \in 1..Len(rows) |-> rows[i][1]])
           /\ ValidRowCount(text) < 4 => r.err # "none"

ParsedRepeatedEpoch ==
    /\ output.done
    /\ output.r.err = "none"
    /\ Len(output.r.epochs) >= 4
    /\ Len(DataBlock(input.result_text)) > Len(output.r.epochs)
    /\ \E i \in 1..(Len(output.r.epochs) - 1) : output.r.epochs[i] = output.r.epochs[i + 1]

\* C7: when a non-blank line of the data block has fewer than 7 numeric
\* values, parse raises and returns nothing, whatever the other rows are; a
\* result holds one sample per non-blank line (none is dropped) and each of
\* its states is the 6 numeric values 2..7 of its own row.
MalformedRowRejected ==
    output.done =>
        LET text == input.result_text
            r == output.r
            rows == RowNums(text)
        IN /\ (HasDataBlock(text) /\ \E i \in 1..Len(rows) : Len(rows[i]) < 7)
                => (r.err # "none" /\ r.epochs = <<>> /\ r.states = <<>>)
           /\ r.err = "none" =>
                /\ Len(r.states) = Len(rows)
                /\ \A i \in 1..Len(rows) :
                     /\ Len(r.states[i]) = 6
                     /\ \A c \in 1..6 : r.states[i][c] = rows[i][c + 1]

SixColumnRowRejected ==
    /\ output.done
    /\ output.r.err = "row"
    /\ ValidRowCount(input.result_text) >= 4
    /\ \E i \in 1..Len(RowNums(input.result_text)) : Len(RowNums(input.result_text)[i]) = 6

\* <digits> or -<digits>
IsSignedInteger(s) == AllDigits(s) \/ (Len(s) > 1 /\ s[1] = "-" /\ AllDigits(Tail(s)))

\* the text between the last "(" of s and a ")" that ends s (trailing blanks
\* aside), <<>> when s does not end so
LastParenthesised(s) ==
    LET r == RStrip(s)
        opens == {i \in 1..Len(r) : r[i] = "("}
    IN IF r # <<>> /\ r[Len(r)] = ")" /\ opens # {}
       THEN SubSeq(r, (CHOOSE i \in opens : \A j \in opens : j <= i) + 1, Len(r) - 1)
       ELSE <<>>

\* a line "Target body name: <name> (<signed-integer>)"
IsIdHeader(line) == line.k = "target" /\ IsSignedInteger(LastParenthesised(line.s))

SignedValue(s) == IF s[1] = "-" THEN 0 - DigitsToNat(Tail(s)) ELSE DigitsToNat(s)

\* C8: with a "Target body name: <name> (<signed-integer>)" line in the text
\* the id is that integer, whether or not and wherever a "Rec #:<digits>"
\* line stands; without one and with a "Rec #:<digits>" line the id is those
\* digits; with neither, parse raises.
IdResolvedInOrder ==
    output.done =>
        LET text == input.result_text
            r == output.r
            h == First({i \in 1..Len(text) : IsIdHeader(text[i])})
            m2 == First({i \in 1..Len(text) : RecMatches(text[i])})
        IN IF h # 0
           THEN /\ r.err \notin {"id", "value"}
                /\ r.err = "none" => r.naif_id = SignedValue(LastParenthesised(text[h].s))
           ELSE IF m2 # 0
                THEN /\ r.err \notin {"id", "value"}
                     /\ r.err = "none" => r.naif_id = DigitsToNat(LeadingDigits(text[m2].s))
                ELSE r.err # "none"

-----------------------------------------------------------------------------
(* generate_kernels *)

\* the head of the tuple COMETS (lines 39-47)
COMETS ==
    << [label |-> "1P/Halley", designation |-> <<"1", "P">>],
       [label |-> "2P/Encke", designation |-> <<"2", "P">>],
       [label |-> "9P/Tempel 1", designation |-> <<"9", "P">>],
       [label |-> "10P/Tempel 2", designation |-> <<"1", "0", "P">>],
       [label |-> "12P/Pons-Brooks", designation |-> <<"1", "2", "P">>],
       [label |-> "17P/Holmes", designation |-> <<"1", "7", "P">>],
       [label |-> "19P/Borrelly", designation |-> <<"1", "9", "P">>],
       [label |-> "21P/Giacobini-Zinner", designation |-> <<"2", "1", "P">>] >>

\* list(COMETS), cut to the catalog length of the model
Catalog == SubSeq(COMETS, 1, NumComets)

\* What urlopen can deliver for a comet: a report with a Target header and 4
\* rows, one with only a record number and 5 rows, one with a row of 6 numeric
\* columns, one without any id.
Responses ==
    { <<TargetLine(TargetRest(<<"1", "2">>, <<>>))>>
          \o WithMarkers("ok", BlockRows(4, 0, "horizons", "inc")),
      <<RecLine(<<"9", "0", "0", " ", "x">>)>>
          \o WithMarkers("ok", BlockRows(5, 0, "horizons", "inc")),
      <<RecLine(<<"9", "0", "0">>)>>
          \o WithMarkers("ok", BlockRows(5, 2, "short", "inc")),
      WithMarkers("ok", BlockRows(4, 0, "horizons", "inc")) }

\* os.path.basename(out_path): f"{file_prefix}{suffix}.bsp" (lines 201-202, 259)
BaseName(index, nparts) ==
    <<"comets">> \o (IF nparts > 1 THEN <<"-part">> \o IntToStr(index) ELSE <<>>)
        \o <<".bsp">>

\* os.path.join(out_dir, ...) (line 202)
OutPath(index, nparts) == <<"out", "/">> \o BaseName(index, nparts)

out_path == OutPath(part_index, Len(parts))

group == parts[part_index]

\* a call as it is issued: live tells whether the local handle is open then
Call(op, ok, arg) ==
    [op |-> op, part |-> part_index, ok |-> ok, arg |-> arg, live |-> handle \in open_handles]

\* st.ndim != 2 or st.shape[1] != 6 (line 218), negated
ShapeOk(states) == \A i \in 1..Len(states) : Len(states[i]) = 6

\* variant: the file is opened once the first comet is fetched
GroupFetchedAfterFirst == pos > 1

\* the loop "for comet in group" (line 207) has run out
GroupFetched == pos > Len(group)

\* variant: the finally block always calls spkcls
AlwaysFinalize(n) == "spkcls"

\* the close call chosen in the finally block (lines 266-269)
CloseOp(n) == IF n > 0 THEN "spkcls" ELSE "dafcls"

\* the arguments of sp.spkw09 (lines 239-251) for one entry of fetched
SegmentOf(e) ==
    [ handle |-> handle, body |-> e.naif_id, center |-> CENTER, frame |-> "J2000",
      first |-> e.epochs[1], last |-> e.epochs[Len(e.epochs)],
      segid |-> MkSegid(e.comet.designation, e.naif_id), degree |-> DEGREE,
      n |-> Len(e.epochs), states |-> e.st, epochs |-> e.epochs ]

\* the dict appended to all_mappings (lines 254-262)
MappingOf(e) ==
    [ label |-> e.comet.label, designation |-> e.comet.designation,
      naifId |-> e.naif_id, kernel |-> BaseName(part_index, Len(parts)),
      rows |-> Len(e.epochs) ]

Init ==
    /\ input = [fn |-> "generate_kernels"]
    /\ output = NotCalled
    /\ max_comets_per_kernel \in (0 - 1)..(NumComets + 1)
    /\ parts = <<>>
    /\ part_index = 0
    /\ pc = "start"
    /\ pos = 0
    /\ fetched = <<>>
    /\ handle = 0
    /\ open_handles = {}
    /\ segments_written = 0
    /\ all_mappings = <<>>
    /\ disk = <<>>
    /\ calls = <<>>
    /\ raising = ""

Abort(why) == pc' = "aborted" /\ raising' = why

\* lines 187-193: numpy or spiceypy cannot be imported
DepsMissing ==
    /\ pc = "start"
    /\ Abort("deps")
    /\ UNCHANGED <<input, output, max_comets_per_kernel, parts, part_index, pos, fetched,
                   handle, open_handles, segments_written, all_mappings, disk, calls>>

\* lines 195-200: the catalog is chunked and the first group entered
Start ==
    /\ pc = "start"
    /\ parts' = Chunked(Catalog, max_comets_per_kernel)
    /\ part_index' = 1
    /\ pos' = 1
    /\ fetched' = <<>>
    /\ pc' = IF parts' = <<>> THEN "summary" ELSE "fetch"
    /\ UNCHANGED <<input, output, max_comets_per_kernel, handle, open_handles,
                   segments_written, all_mappings, disk, calls, raising>>

\* lines 208-213: _fetch_horizons_result_text raises
FetchFail ==
    /\ pc = "fetch" /\ ~GroupFetched
    /\ calls' = Append(calls, Call("fetch", FALSE, group[pos].designation))
    /\ Abort("fetch")
    /\ UNCHANGED <<input, output, max_comets_per_kernel, parts, part_index, pos, fetched,
                   handle, open_handles, segments_written, all_mappings, disk>>

\* lines 208-220: one comet of the group is fetched and parsed
FetchParse ==
    /\ pc = "fetch" /\ ~GroupFetched
    /\ \E txt \in Responses :
         LET r == Parse(txt)
             good == r.err = "none" /\ ShapeOk(r.states)
         IN /\ calls' = calls \o << Call("fetch", TRUE, group[pos].designation),
                                    Call("parse", good, group[pos].designation) >>
            /\ IF good
               THEN /\ fetched' = Append(fetched, [comet |-> group[pos], naif_id |-> r.naif_id,
                                                   epochs |-> r.epochs, st |-> r.states])
                    /\ pos' = pos + 1
                    /\ UNCHANGED <<pc, raising>>
               ELSE /\ Abort("parse")
                    /\ UNCHANGED <<fetched, pos>>
    /\ UNCHANGED <<input, output, max_comets_per_kernel, parts, part_index, handle,
                   open_handles, segments_written, all_mappings, disk>>

\* lines 222-227: the group is complete; spkopn creates the file
OpenKernel ==
    /\ pc = "fetch" /\ GroupFetched
    /\ IF Len(fetched) = 0
       THEN /\ Abort("empty")
            /\ UNCHANGED <<handle, open_handles, segments_written, disk, calls, pos>>
       ELSE /\ handle' = part_index
            /\ open_handles' = open_handles \cup {part_index}
            /\ disk' = (out_path :> <<>>) @@ disk
            /\ segments_written' = 0
            /\ calls' = Append(calls, Call("spkopn", TRUE, out_path))
            /\ pos' = 1
            /\ pc' = "write"
            /\ UNCHANGED raising
    /\ UNCHANGED <<input, output, max_comets_per_kernel, parts, part_index, fetched,
                   all_mappings>>

\* line 226: spkopn raises (the path cannot be created); no handle is bound
OpenFail ==
    /\ pc = "fetch" /\ GroupFetched /\ Len(fetched) > 0
    /\ calls' = Append(calls, Call("spkopn", FALSE, out_path))
    /\ Abort("open")
    /\ UNCHANGED <<input, output, max_comets_per_kernel, parts, part_index, pos, fetched,
                   handle, open_handles, segments_written, all_mappings, disk>>

\* variant: the segment is written but no mapping is appended
WriteSegmentNoRecord ==
    /\ pc = "write" /\ pos <= Len(fetched)
    /\ calls' = Append(calls, Call("spkw09", TRUE, SegmentOf(fetched[pos])))
    /\ disk' = [disk EXCEPT ![out_path] = Append(@, SegmentOf(fetched[pos]))]
    /\ segments_written' = segments_written + 1
    /\ pos' = pos + 1
    /\ pc' = IF pos = Len(fetched) THEN "finally" ELSE "write"
    /\ UNCHANGED <<input, output, max_comets_per_kernel, parts, part_index, fetched,
                   handle, open_handles, raising, all_mappings>>

\* lines 229-262: one segment is written, counted and recorded
WriteSegment ==
    /\ pc = "write" /\ pos <= Len(fetched)
    /\ calls' = Append(calls, Call("spkw09", TRUE, SegmentOf(fetched[pos])))
    /\ disk' = [disk EXCEPT ![out_path] = Append(@, SegmentOf(fetched[pos]))]
    /\ segments_written' = segments_written + 1
    /\ all_mappings' = Append(all_mappings, MappingOf(fetched[pos]))
    /\ pos' = pos + 1
    /\ pc' = IF pos = Len(fetched) THEN "finally" ELSE "write"
    /\ UNCHANGED <<input, output, max_comets_per_kernel, parts, part_index, fetched,
                   handle, open_handles, raising>>

\* variant: no finally block, the exception leaves at once
WriteFailNoFinally ==
    /\ pc = "write" /\ pos <= Len(fetched)
    /\ calls' = Append(calls, Call("spkw09", FALSE, SegmentOf(fetched[pos])))
    /\ Abort("write")
    /\ UNCHANGED <<input, output, max_comets_per_kernel, parts, part_index, pos, fetched,
                   handle, open_handles, segments_written, all_mappings, disk>>

\* lines 239-251, 263: spkw09 raises; control passes to the finally block
WriteFail ==
    /\ pc = "write" /\ pos <= Len(fetched)
    /\ calls' = Append(calls, Call("spkw09", FALSE, SegmentOf(fetched[pos])))
    /\ raising' = "write"
    /\ pc' = "finally"
    /\ UNCHANGED <<input, output, max_comets_per_kernel, parts, part_index, pos, fetched,
                   handle, open_handles, segments_written, all_mappings, disk>>

\* lines 263-272 and the loop header: the handle is closed; a pending
\* exception leaves the function, otherwise the next group is entered
CloseKernel ==
    /\ pc = "finally"
    /\ calls' = Append(calls, Call(CloseOp(segments_written), TRUE, Len(disk[out_path])))
    /\ open_handles' = open_handles \ {handle}
    /\ IF raising # ""
       THEN /\ pc' = "aborted"
            /\ UNCHANGED <<part_index, pos, fetched>>
       ELSE IF part_index < Len(parts)
            THEN /\ part_index' = part_index + 1
                 /\ pos' = 1
                 /\ fetched' = <<>>
                 /\ pc' = "fetch"
            ELSE /\ pc' = "summary"
                 /\ UNCHANGED <<part_index, pos, fetched>>
    /\ UNCHANGED <<input, output, max_comets_per_kernel, parts, handle, segments_written,
                   all_mappings, disk, raising>>

\* lines 266-269: the close call itself raises
CloseFail ==
    /\ pc = "finally"
    /\ calls' = Append(calls, Call(CloseOp(segments_written), FALSE, Len(disk[out_path])))
    /\ Abort("close")
    /\ UNCHANGED <<input, output, max_comets_per_kernel, parts, part_index, pos, fetched,
                   handle, open_handles, segments_written, all_mappings, disk>>

\* lines 274-276: the mapping summary is printed
Summary ==
    /\ pc = "summary"
    /\ output' = Returned(all_mappings)
    /\ pc' = "done"
    /\ UNCHANGED <<input, max_comets_per_kernel, parts, part_index, pos, fetched, handle,
                   open_handles, segments_written, all_mappings, disk, calls, raising>>

Next ==
    \/ DepsMissing
    \/ Start
    \/ FetchFail
    \/ FetchParse
    \/ OpenKernel
    \/ OpenFail
    \/ WriteSegment
    \/ WriteFail
    \/ CloseKernel
    \/ CloseFail
    \/ Summary

Spec == Init /\ [][Next]_vars

-----------------------------------------------------------------------------
(* Properties of generate_kernels, checked under Spec *)

CallIdx == 1..Len(calls)

IsClose(c) == c.op \in {"spkcls", "dafcls"}

IsWritten(c) == c.op = "spkw09" /\ c.ok

\* successful spkw09 calls of the group of call j issued before it
WrittenBefore(j) ==
    Cardinality({i \in 1..(j - 1) : IsWritten(calls[i]) /\ calls[i].part = calls[j].part})

\* the write phase of group k is over
WritePhaseOver(k) == ~(k = part_index /\ pc \in {"write", "finally"})

ClosesOf(k) == {i \in CallIdx : IsClose(calls[i]) /\ calls[i].part = k}

\* C1: a handle is closed with dafcls when no segment was written through it
\* and with spkcls when at least one was; spkcls is never called on a file
\* holding no segment; every file opened has been closed by the time its
\* write phase is over, however that phase ended.
ClosePathBySegments ==
    /\ \A j \in CallIdx :
         IsClose(calls[j]) =>
            /\ WrittenBefore(j) = 0 => calls[j].op = "dafcls"
            /\ WrittenBefore(j) >= 1 => calls[j].op = "spkcls"
            /\ calls[j].op = "spkcls" => calls[j].arg >= 1
    /\ \A j \in CallIdx :
         (calls[j].op = "spkopn" /\ calls[j].ok /\ WritePhaseOver(calls[j].part))
            => ClosesOf(calls[j].part) # {}

AbandonedAfterFirstWriteFailed ==
    /\ pc = "aborted" /\ raising = "write"
    /\ segments_written = 0
    /\ calls[Len(calls)].op = "dafcls"

\* C2: after an abort on a fetch, parse or segment-write failure no file of
\* the group in progress is on disk with fewer segments than the group has
\* bodies, and the file of every completed group holds one segment per body.
NoPartialFileAfterAbort ==
    (pc = "aborted" /\ raising \in {"fetch", "parse", "write"}) =>
        /\ OutPath(part_index, Len(parts)) \in DOMAIN disk
              => Len(disk[OutPath(part_index, Len(parts))]) >= Len(parts[part_index])
        /\ \A k \in 1..(part_index - 1) :
              /\ OutPath(k, Len(parts)) \in DOMAIN disk
              /\ Len(disk[OutPath(k, Len(parts))]) = Len(parts[k])

IsParsed(c) == c.op = "parse" /\ c.ok

\* C3: spkopn is called for a group only after the fetch and the parse of
\* every member succeeded, in group order; when a fetch or a parse fails the
\* run is over, with no open, write or close call for that group and no call
\* at all for a later group.
FetchedBeforeOpened ==
    /\ \A j \in CallIdx :
         calls[j].op = "spkopn" =>
            LET k == calls[j].part
                got == SelectSeq(SubSeq(calls, 1, j - 1), IsParsed)
                mine == SelectSeq(got, LAMBDA c : c.part = k)
            IN /\ Len(mine) = Len(parts[k])
               /\ \A i \in 1..Len(mine) : mine[i].arg = parts[k][i].designation
               /\ \A i \in 1..(j - 1) :
                    (calls[i].part = k /\ calls[i].op \in {"fetch", "parse"}) => calls[i].ok
    /\ raising \in {"fetch", "parse"} =>
         /\ pc = "aborted"
         /\ ~ENABLED Next
         /\ \A j \in CallIdx :
              /\ calls[j].part <= part_index
              /\ calls[j].part = part_index => calls[j].op \in {"fetch", "parse"}

AbortedInsideFetchPhase ==
    /\ raising = "parse"
    /\ Len(fetched) >= 1
    /\ Len(parts) > part_index

\* number of bodies in the groups before group k
RECURSIVE Offset(_)
Offset(k) == IF k <= 1 THEN 0 ELSE Offset(k - 1) + Len(parts[k - 1])

\* C9: the records of all_mappings are the successful spkw09 calls, one for
\* one and in order; after a run that completes the file of each group holds
\* one segment per body of the group in catalog order, and the summary holds
\* one record per catalog entry, in catalog order, naming the file of the
\* entry's group and the number of samples of its segment.
RecordsMatchSegments ==
    /\ LET w == SelectSeq(calls, IsWritten)
       IN /\ Len(all_mappings) = Len(w)
          /\ \A i \in 1..Len(w) :
               /\ all_mappings[i].naifId = w[i].arg.body
               /\ all_mappings[i].rows = w[i].arg.n
               /\ all_mappings[i].kernel = BaseName(w[i].part, Len(parts))
    /\ pc = "done" =>
         /\ output.done /\ output.r = all_mappings
         /\ Len(all_mappings) = Len(Catalog)
         /\ \A k \in 1..Len(parts) :
              LET file == disk[OutPath(k, Len(parts))]
              IN /\ Len(file) = Len(parts[k])
                 /\ \A i \in 1..Len(file) :
                      LET rec == all_mappings[Offset(k) + i]
                      IN /\ file[i].segid = MkSegid(parts[k][i].designation, file[i].body)
                         /\ Len(file[i].epochs) = file[i].n /\ Len(file[i].states) = file[i].n
                         /\ rec.label = Catalog[Offset(k) + i].label
                         /\ rec.designation = parts[k][i].designation
                         /\ rec.naifId = file[i].body
                         /\ rec.kernel = BaseName(k, Len(parts))
                         /\ rec.rows = file[i].n

CompletedSplitRun ==
    /\ pc = "done"
    /\ Len(parts) >= 2
    /\ Len(parts[1]) >= 2
    /\ Len(all_mappings) = NumComets

\* C10: at most one handle is open at a time; a handle that was opened gets
\* at most one close call, and exactly one once its write phase is over, also
\* after a failed spkw09; the close call of group k comes before the first
\* fetch of group k + 1; spkw09 is only called on an open handle.
OneHandleAtATime ==
    /\ Cardinality(open_handles) <= 1
    /\ \A j \in CallIdx :
         (calls[j].op = "spkopn" /\ calls[j].ok) =>
            /\ Cardinality(ClosesOf(calls[j].part)) <= 1
            /\ WritePhaseOver(calls[j].part) => Cardinality(ClosesOf(calls[j].part)) = 1
            /\ \A i \in ClosesOf(calls[j].part) : i > j /\ calls[i].live
    /\ \A j \in CallIdx :
         (calls[j].op = "fetch" /\ calls[j].part > 1) =>
            /\ \E i \in 1..(j - 1) : IsClose(calls[i]) /\ calls[i].part = calls[j].part - 1
            /\ ~calls[j].live
    /\ \A j \in CallIdx : calls[j].op = "spkw09" => calls[j].live

ClosedAfterFailedWrite ==
    /\ pc = "aborted" /\ raising = "write"
    /\ part_index >= 2
    /\ handle = part_index
    /\ open_handles = {}

====
